---- MODULE Spec2Model ----
(***************************************************************************)
(* Model of the ZIP code reader (ZipCodeBuffer), of the per-state         *)
(* extremes fold (calculateStateExtremes) and of main of the zip_analysis  *)
(* program.                                                                *)
(*                                                                         *)
(* Text is modelled as sequences of one-character strings, so that         *)
(* splitting, trimming and number conversion are computed character by     *)
(* character as the C++ does.  File names are opaque strings.  A file is   *)
(* the sequence of its lines (what successive getline calls return).       *)
(* Coordinates are finite doubles strictly between                         *)
(* numeric_limits<double>::lowest() and max(); the field text of the       *)
(* model's lines writes them as signed decimal integers.                   *)
(***************************************************************************)
EXTENDS Integers, Sequences, FiniteSets, TLC

VARIABLES
    fs,          \* the file system: path -> sequence of lines (never changes)
    buf,         \* the ZipCodeBuffer object
    op,          \* the member function called last
    arg,         \* its path argument (open), "" otherwise
    ret,         \* its boolean return value
    exit,        \* the return statement readRecord left through
    record,      \* the caller's ZipCodeRecord after readRecord
    allRecords,  \* the vector returned by the last gatherAllRecords
    yielded,     \* history: readRecord calls that returned a record since the
                 \* last successful open or successful reset
    prevAll,     \* history: the last two gatherAllRecords results on this source
    before,      \* history: the ZipCodeBuffer object as the last call found it
    records,     \* calculateStateExtremes: the records folded so far
    stateMap,    \* calculateStateExtremes: the map being built
    argv,        \* main: the command-line arguments after the program name
    pc,          \* main: the statement main is at
    exitCode,    \* main: the value main returned, -1 while it has not
    splitLine,   \* splitCSV: the line it is called on
    splitFields  \* splitCSV: the fields it returned

vars == <<fs, buf, op, arg, ret, exit, record, allRecords, yielded, prevAll,
          before, records, stateMap, argv, pc, exitCode, splitLine, splitFields>>

readerVars == <<fs, buf, op, arg, ret, exit, record, allRecords, yielded, prevAll,
                before>>

aggVars == <<records, stateMap>>

mainVars == <<argv, pc, exitCode>>

splitVars == <<splitLine, splitFields>>

-----------------------------------------------------------------------------
(* Bounds *)

\* data lines after the header in the file under test
MaxLines == 2

\* records folded by calculateStateExtremes
MaxRecords == 2

\* ZIP codes of the fold's records are 0..MaxCode
MaxCode == 2

\* coordinates of the fold's records are 0..MaxCoord
MaxCoord == 1

-----------------------------------------------------------------------------
(* Characters and strings *)

\* the whitespace set of trim
TrimChars == {" ", "\t", "\r", "\n"}

Digits == {"0", "1", "2", "3", "4", "5", "6", "7", "8", "9"}

DigitVal(c) ==
    CASE c = "0" -> 0 [] c = "1" -> 1 [] c = "2" -> 2 [] c = "3" -> 3
      [] c = "4" -> 4 [] c = "5" -> 5 [] c = "6" -> 6 [] c = "7" -> 7
      [] c = "8" -> 8 [] c = "9" -> 9

\* str.find_first_not_of(" \t\r\n"): 0 stands for npos
FirstNotOf(str) ==
    IF \E i \in 1..Len(str) : str[i] \notin TrimChars
    THEN CHOOSE i \in 1..Len(str) :
            /\ str[i] \notin TrimChars
            /\ \A j \in 1..(i - 1) : str[j] \in TrimChars
    ELSE 0

\* str.find_last_not_of(" \t\r\n")
LastNotOf(str) ==
    IF \E i \in 1..Len(str) : str[i] \notin TrimChars
    THEN CHOOSE i \in 1..Len(str) :
            /\ str[i] \notin TrimChars
            /\ \A j \in (i + 1)..Len(str) : str[j] \in TrimChars
    ELSE 0

trim(str) ==
    IF FirstNotOf(str) = 0 THEN << >>
    ELSE SubSeq(str, FirstNotOf(str), LastNotOf(str))

RECURSIVE splitCSVFrom(_, _, _, _, _)
splitCSVFrom(line, i, fields, currentField, inQuotes) ==
    IF i > Len(line) THEN Append(fields, currentField)
    ELSE IF line[i] = "\"" THEN
        splitCSVFrom(line, i + 1, fields, currentField, ~inQuotes)
    ELSE IF line[i] = "," /\ ~inQuotes THEN
        splitCSVFrom(line, i + 1, Append(fields, currentField), << >>, inQuotes)
    ELSE
        splitCSVFrom(line, i + 1, fields, Append(currentField, line[i]), inQuotes)

\* faulty variant of splitCSV: inQuotes starts out true
splitCSV_startsQuoted(line) == splitCSVFrom(line, 1, << >>, << >>, TRUE)

splitCSV(line) == splitCSVFrom(line, 1, << >>, << >>, FALSE)

\* value of the run of digits of s that starts at index i, given the value
\* acc of the digits before it
RECURSIVE DigitRun(_, _, _)
DigitRun(s, i, acc) ==
    IF i <= Len(s) /\ s[i] \in Digits
    THEN DigitRun(s, i + 1, 10 * acc + DigitVal(s[i]))
    ELSE acc

\* index of the first character of s that is not whitespace, Len(s) + 1
\* when there is none
SkipSpace(s) ==
    IF \E i \in 1..Len(s) : s[i] \notin TrimChars
    THEN CHOOSE i \in 1..Len(s) :
            s[i] \notin TrimChars /\ \A j \in 1..(i - 1) : s[j] \in TrimChars
    ELSE Len(s) + 1

\* the longest run of digits from index first on; whatever follows the
\* digits is ignored.  No digit: no conversion.
NumberFrom(s, first, negative) ==
    [ok  |-> first <= Len(s) /\ s[first] \in Digits,
     val |-> IF negative THEN 0 - DigitRun(s, first, 0) ELSE DigitRun(s, first, 0)]

\* an optional sign, then the digits
NumberAt(s, start) ==
    IF start <= Len(s) /\ s[start] \in {"-", "+"}
    THEN NumberFrom(s, start + 1, s[start] = "-")
    ELSE NumberFrom(s, start, FALSE)

\* strtol/strtod on text made of whitespace, sign and decimal digits
NumberPrefix(s) == NumberAt(s, SkipSpace(s))

\* the value must fit an int
IntRange(n) ==
    [ok  |-> n.ok /\ n.val >= (0 - 2147483647) - 1 /\ n.val <= 2147483647,
     val |-> n.val]

\* std::stoi: throws (ok = FALSE) when no conversion could be performed or
\* the value is out of range
stoi(s) == IntRange(NumberPrefix(s))

\* std::stod
stod(s) == NumberPrefix(s)

-----------------------------------------------------------------------------
(* ZipCodeRecord and the line parser *)

\* ZipCodeRecord::ZipCodeRecord()
ZipCodeRecord ==
    [zipCode |-> 0, placeName |-> << >>, state |-> << >>, county |-> << >>,
     latitude |-> 0, longitude |-> 0]

\* parseLine fills the caller's record field by field and stops at the first
\* conversion that throws: the fields assigned before the throw stay assigned.

\* record.longitude = stod(trim(fields[5])); return true;   (0-based index)
parseLongitude(rec, lon) ==
    IF ~lon.ok THEN [ok |-> FALSE, record |-> rec]
    ELSE [ok |-> TRUE, record |-> [rec EXCEPT !.longitude = lon.val]]

\* record.latitude = stod(trim(fields[4]));
parseLatitude(fields, rec, lat) ==
    IF ~lat.ok THEN [ok |-> FALSE, record |-> rec]
    ELSE parseLongitude([rec EXCEPT !.latitude = lat.val], stod(trim(fields[6])))

\* record.zipCode = stoi(trim(fields[0])); then the three text fields
parseZipCode(fields, rec, zip) ==
    IF ~zip.ok THEN [ok |-> FALSE, record |-> rec]
    ELSE parseLatitude(fields,
                       [rec EXCEPT !.zipCode = zip.val,
                                   !.placeName = trim(fields[2]),
                                   !.state = trim(fields[3]),
                                   !.county = trim(fields[4])],
                       stod(trim(fields[5])))

parseFields(fields, rec) ==
    IF Len(fields) # 6 THEN [ok |-> FALSE, record |-> rec]
    ELSE parseZipCode(fields, rec, stoi(trim(fields[1])))

parseLine(line, rec) == parseFields(splitCSV(line), rec)

-----------------------------------------------------------------------------
(* The input stream (std::ifstream fileStream) *)

\* a stream that was never opened
ClosedStream == [is_open |-> FALSE, path |-> "", pos |-> 1, fail |-> FALSE]

\* fileStream.open(name): attaches the file and clears the state flags when
\* the file exists, sets failbit otherwise
StreamOpen(stream, name) ==
    IF ~stream.is_open /\ name \in DOMAIN fs
    THEN [is_open |-> TRUE, path |-> name, pos |-> 1, fail |-> FALSE]
    ELSE [stream EXCEPT !.fail = TRUE]

\* fileStream.close(): the state flags are left as they are
StreamClose(stream) ==
    [stream EXCEPT !.is_open = FALSE, !.path = "", !.pos = 1]

\* getline(fileStream, line): no extraction once failbit is set or the
\* lines are used up, and failbit is set then
getline(stream) ==
    IF stream.is_open /\ ~stream.fail /\ stream.pos <= Len(fs[stream.path])
    THEN [ok |-> TRUE, line |-> fs[stream.path][stream.pos],
          stream |-> [stream EXCEPT !.pos = stream.pos + 1]]
    ELSE [ok |-> FALSE, line |-> << >>,
          stream |-> [stream EXCEPT !.fail = TRUE]]

\* faulty variant of StreamRewind: the seekg is forgotten
StreamRewind_noSeek(stream) == [stream EXCEPT !.fail = FALSE]

\* fileStream.clear(); fileStream.seekg(0, ios::beg)
StreamRewind(stream) == [stream EXCEPT !.fail = FALSE, !.pos = 1]

-----------------------------------------------------------------------------
(* ZipCodeBuffer *)

\* ZipCodeBuffer::ZipCodeBuffer()
ZipCodeBuffer ==
    [fileStream |-> ClosedStream, filename |-> "", headerSkipped |-> FALSE,
     recordCount |-> 0]

\* faulty variant of close: the record counter is left as it was
close_keepsCount(b) ==
    [fileStream    |-> IF b.fileStream.is_open THEN StreamClose(b.fileStream)
                       ELSE b.fileStream,
     filename      |-> "",
     headerSkipped |-> FALSE,
     recordCount   |-> b.recordCount]

\* void ZipCodeBuffer::close()
close(b) ==
    [fileStream    |-> IF b.fileStream.is_open THEN StreamClose(b.fileStream)
                       ELSE b.fileStream,
     filename      |-> "",
     headerSkipped |-> FALSE,
     recordCount   |-> 0]

isOpen(b) == b.fileStream.is_open

getRecordCount(b) == b.recordCount

getFilename(b) == b.filename

\* faulty variant of openHeader: the result of reading the header is not checked
openHeader_noCheck(b, g) ==
    [buf |-> [b EXCEPT !.fileStream = g.stream,
                       !.headerSkipped = TRUE,
                       !.recordCount = 0],
     ret |-> TRUE]

\* after fileStream.open succeeded: skip the header row
openHeader(b, g) ==
    IF g.ok
    THEN [buf |-> [b EXCEPT !.fileStream = g.stream,
                            !.headerSkipped = TRUE,
                            !.recordCount = 0],
          ret |-> TRUE]
    ELSE [buf |-> close([b EXCEPT !.fileStream = g.stream]), ret |-> FALSE]

\* after close(); filename = csvFilename; fileStream.open(filename);
openStream(b) ==
    IF ~b.fileStream.is_open THEN [buf |-> b, ret |-> FALSE]
    ELSE openHeader(b, getline(b.fileStream))

\* fileStream.open(filename)
openFile(b) ==
    openStream([b EXCEPT !.fileStream = StreamOpen(b.fileStream, b.filename)])

\* faulty variant of open: the source held is not closed first
open_noClose(b, csvFilename) == openFile([b EXCEPT !.filename = csvFilename])

\* bool ZipCodeBuffer::open(const string& csvFilename)
open(b, csvFilename) == openFile([close(b) EXCEPT !.filename = csvFilename])

\* faulty variant of resetHeader: the record counter is not reset
resetHeader_keepsCount(b, g) ==
    [buf |-> [b EXCEPT !.fileStream = g.stream], ret |-> g.ok]

\* after clear() and seekg(): skip the header row again
resetHeader(b, g) ==
    IF ~g.ok THEN [buf |-> [b EXCEPT !.fileStream = g.stream], ret |-> FALSE]
    ELSE [buf |-> [b EXCEPT !.fileStream = g.stream, !.recordCount = 0],
          ret |-> TRUE]

\* faulty variant of reset: fileStream.clear() is left out
reset_noClear(b) ==
    IF ~b.fileStream.is_open THEN [buf |-> b, ret |-> FALSE]
    ELSE resetHeader(b, getline([b.fileStream EXCEPT !.pos = 1]))

\* bool ZipCodeBuffer::reset()
reset(b) ==
    IF ~b.fileStream.is_open THEN [buf |-> b, ret |-> FALSE]
    ELSE resetHeader(b, getline(StreamRewind(b.fileStream)))

\* exit names the return statement taken: "not-open" (line 152), "record"
\* (line 166), "parse-error" (line 168), "end-of-input" (line 173)
RECURSIVE readRecord(_, _)

\* faulty variant of readParsed: a line that fails to parse is reported as read
readParsed_ignoresFailure(b, p) ==
    [buf |-> [b EXCEPT !.recordCount = b.recordCount + 1],
     record |-> p.record, ret |-> TRUE,
     exit |-> IF p.ok THEN "record" ELSE "parse-error"]

\* if (parseLine(line, record)) { recordCount++; return true; } else return false;
readParsed(b, p) ==
    IF p.ok
    THEN [buf |-> [b EXCEPT !.recordCount = b.recordCount + 1],
          record |-> p.record, ret |-> TRUE, exit |-> "record"]
    ELSE [buf |-> b, record |-> p.record, ret |-> FALSE, exit |-> "parse-error"]

\* faulty variant of readLine: only the empty line is skipped
readLine_emptyOnly(b, rec, line) ==
    IF line = << >> THEN readRecord(b, rec)
    ELSE readParsed(b, parseLine(line, rec))

\* the line was read: skip it when blank, parse it otherwise
readLine(b, rec, line) ==
    IF line = << >> \/ trim(line) = << >> THEN readRecord(b, rec)
    ELSE readParsed(b, parseLine(line, rec))

\* if (getline(fileStream, line)) { ... } return false;
readGetline(b, rec, g) ==
    IF g.ok THEN readLine([b EXCEPT !.fileStream = g.stream], rec, g.line)
    ELSE [buf |-> [b EXCEPT !.fileStream = g.stream], record |-> rec,
          ret |-> FALSE, exit |-> "end-of-input"]

readRecord(b, rec) ==
    IF ~b.fileStream.is_open
    THEN [buf |-> b, record |-> rec, ret |-> FALSE, exit |-> "not-open"]
    ELSE readGetline(b, rec, getline(b.fileStream))

\* the while loop of gatherAllRecords
RECURSIVE ReadLoop(_, _, _)

\* while (readRecord(record)) records.push_back(record);
ReadLoopBody(r, acc) ==
    IF r.ret THEN ReadLoop(r.buf, r.record, Append(acc, r.record))
    ELSE [buf |-> r.buf, records |-> acc]

ReadLoop(b, rec, acc) == ReadLoopBody(readRecord(b, rec), acc)

\* the closing reset(); resetOk is its result
gatherReset(r, recs) == [buf |-> r.buf, records |-> recs, resetOk |-> r.ret]

\* the loop has ended
gatherDone(loop) == gatherReset(reset(loop.buf), loop.records)

gatherAllRecords(b) == gatherDone(ReadLoop(reset(b).buf, ZipCodeRecord, << >>))

-----------------------------------------------------------------------------
(* The files the reader is run on *)

SeqsUpTo(S, n) == UNION {[1..k -> S] : k \in 0..n}

\* the fields joined by commas
RECURSIVE Csv(_)
Csv(fields) ==
    IF Len(fields) = 1 THEN fields[1]
    ELSE fields[1] \o <<",">> \o Csv(Tail(fields))

Header == Csv(<<<<"Z">>, <<"P">>, <<"S">>, <<"C">>, <<"L", "a">>, <<"L", "o">>>>)

NY == <<"N", "Y">>

CA == <<"C", "A">>

\* ZipCode,PlaceName,State,County,Lat,Long
Line(zip, place, st, lat, lon) == Csv(<<zip, place, st, <<"c">>, lat, lon>>)

WellFormedLines ==
    { Line(<<"1">>, <<"p">>, NY, <<"1">>, <<"0">>),
      Line(<<"2">>, <<"\"", "p", ",", "q", "\"">>, CA, <<"0">>, <<"-", "1">>),
      Line(<<" ", "0", "3">>, <<"p">>, NY, <<"1">>, <<"2", "\r">>) }

BlankLines == { << >>, <<" ", "\t", "\r">> }

\* lines with a wrong field count or with text that is not a plain number in
\* a numeric field, and a line with a negative code
SuspectLines ==
    { Csv(<<<<"1">>, <<"p">>, NY, <<"c">>, <<"1">>>>),       \* five fields
      Line(<<"a">>, <<"p">>, NY, <<"1">>, <<"0">>),          \* code not a number
      Line(<<"2">>, <<"q">>, CA, <<"x">>, <<"0">>),          \* latitude not a number
      Line(<<"1", "a">>, <<"p">>, NY, <<"1">>, <<"0">>),     \* digits, then a letter
      Line(<<"-", "1">>, <<"p">>, NY, <<"1">>, <<"0">>) }    \* negative code

DataLines == WellFormedLines \cup BlankLines \cup SuspectLines

\* an empty file, or a header followed by at most MaxLines lines
Files == { << >> } \cup { <<Header>> \o body : body \in SeqsUpTo(DataLines, MaxLines) }

FileA == "A.csv"

FileB == "B.csv"

Missing == "missing.csv"

Paths == {FileA, FileB, Missing}

ContentsB == <<Header, Line(<<"2">>, <<"q">>, CA, <<"0">>, <<"1">>)>>

-----------------------------------------------------------------------------
(* The fold of calculateStateExtremes: declarations used by Init *)

\* StateExtremes::StateExtremes() writes numeric_limits<double>::max() and
\* lowest() = -max(); DBL_MAX stands for max()
DBL_MAX == 1000

\* faulty variant of StateExtremes: the coordinates start at zero
StateExtremes_zero ==
    [easternmost |-> 0, westernmost |-> 0, northernmost |-> 0, southernmost |-> 0,
     minLongitude |-> 0, maxLongitude |-> 0, maxLatitude |-> 0, minLatitude |-> 0]

StateExtremes ==
    [easternmost |-> 0, westernmost |-> 0, northernmost |-> 0, southernmost |-> 0,
     minLongitude |-> DBL_MAX, maxLongitude |-> 0 - DBL_MAX,
     maxLatitude |-> 0 - DBL_MAX, minLatitude |-> DBL_MAX]

\* map<string, StateExtremes> stateMap;
EmptyMap == [k \in {} |-> StateExtremes]

-----------------------------------------------------------------------------
(* The reader driven by an arbitrary caller *)

Init ==
    /\ fs \in { [p \in {FileA, FileB} |-> IF p = FileA THEN f ELSE ContentsB] :
                f \in Files }
    /\ buf = ZipCodeBuffer
    /\ op = "new"
    /\ arg = ""
    /\ ret = FALSE
    /\ exit = "none"
    /\ record = ZipCodeRecord
    /\ allRecords = << >>
    /\ yielded = 0
    /\ prevAll = << >>
    /\ before = ZipCodeBuffer
    /\ records = << >>
    /\ stateMap = EmptyMap
    /\ splitLine = << >>
    /\ splitFields = << >>
    /\ argv = << >>
    /\ pc = "not-run"
    /\ exitCode = -1

Open(p) ==
    \E r \in {open(buf, p)} :
        /\ buf' = r.buf
        /\ op' = "open"
        /\ arg' = p
        /\ ret' = r.ret
        /\ exit' = "none"
        /\ record' = ZipCodeRecord
        /\ allRecords' = << >>
        /\ yielded' = IF r.ret THEN 0 ELSE yielded
        /\ prevAll' = << >>
        /\ before' = buf
        /\ UNCHANGED <<fs, records, stateMap, mainVars, splitVars>>

Close ==
    /\ buf' = close(buf)
    /\ op' = "close"
    /\ arg' = ""
    /\ ret' = FALSE
    /\ exit' = "none"
    /\ record' = ZipCodeRecord
    /\ allRecords' = << >>
    /\ prevAll' = << >>
    /\ before' = buf
    /\ UNCHANGED <<fs, yielded, records, stateMap, mainVars, splitVars>>

Reset ==
    \E r \in {reset(buf)} :
        /\ buf' = r.buf
        /\ op' = "reset"
        /\ arg' = ""
        /\ ret' = r.ret
        /\ exit' = "none"
        /\ record' = ZipCodeRecord
        /\ allRecords' = << >>
        /\ yielded' = IF r.ret THEN 0 ELSE yielded
        /\ before' = buf
        /\ UNCHANGED <<fs, prevAll, records, stateMap, mainVars, splitVars>>

\* the caller passes a default-constructed record
ReadRecord ==
    \E r \in {readRecord(buf, ZipCodeRecord)} :
        /\ buf' = r.buf
        /\ op' = "readRecord"
        /\ arg' = ""
        /\ ret' = r.ret
        /\ exit' = r.exit
        /\ record' = r.record
        /\ allRecords' = << >>
        /\ yielded' = IF r.ret THEN yielded + 1 ELSE yielded
        /\ before' = buf
        /\ UNCHANGED <<fs, prevAll, records, stateMap, mainVars, splitVars>>

GatherAllRecords ==
    \E r \in {gatherAllRecords(buf)} :
        /\ buf' = r.buf
        /\ op' = "gatherAllRecords"
        /\ arg' = ""
        /\ ret' = FALSE
        /\ exit' = "none"
        /\ record' = ZipCodeRecord
        /\ allRecords' = r.records
        /\ yielded' = IF r.resetOk THEN 0 ELSE yielded + Len(r.records)
        /\ prevAll' = IF ~isOpen(buf) THEN prevAll
                       ELSE IF Len(prevAll) = 2 THEN <<prevAll[2], r.records>>
                       ELSE Append(prevAll, r.records)
        /\ before' = buf
        /\ UNCHANGED <<fs, records, stateMap, mainVars, splitVars>>

Next ==
    \/ \E p \in Paths : Open(p)
    \/ Close
    \/ Reset
    \/ ReadRecord
    \/ GatherAllRecords

Spec == Init /\ [][Next]_vars

-----------------------------------------------------------------------------
(* calculateStateExtremes *)

smallerZipWins(candidate, current) ==
    IF current = 0 THEN TRUE ELSE candidate < current

\* EASTERNMOST (minimum longitude)
updateEasternmost(extremes, rec) ==
    IF rec.longitude < extremes.minLongitude
    THEN [extremes EXCEPT !.minLongitude = rec.longitude,
                          !.easternmost = rec.zipCode]
    ELSE IF rec.longitude = extremes.minLongitude
            /\ smallerZipWins(rec.zipCode, extremes.easternmost)
    THEN [extremes EXCEPT !.easternmost = rec.zipCode]
    ELSE extremes

\* WESTERNMOST (maximum longitude)
updateWesternmost(extremes, rec) ==
    IF rec.longitude > extremes.maxLongitude
    THEN [extremes EXCEPT !.maxLongitude = rec.longitude,
                          !.westernmost = rec.zipCode]
    ELSE IF rec.longitude = extremes.maxLongitude
            /\ smallerZipWins(rec.zipCode, extremes.westernmost)
    THEN [extremes EXCEPT !.westernmost = rec.zipCode]
    ELSE extremes

\* NORTHERNMOST (maximum latitude)
updateNorthernmost(extremes, rec) ==
    IF rec.latitude > extremes.maxLatitude
    THEN [extremes EXCEPT !.maxLatitude = rec.latitude,
                          !.northernmost = rec.zipCode]
    ELSE IF rec.latitude = extremes.maxLatitude
            /\ smallerZipWins(rec.zipCode, extremes.northernmost)
    THEN [extremes EXCEPT !.northernmost = rec.zipCode]
    ELSE extremes

\* SOUTHERNMOST (minimum latitude)
updateSouthernmost(extremes, rec) ==
    IF rec.latitude < extremes.minLatitude
    THEN [extremes EXCEPT !.minLatitude = rec.latitude,
                          !.southernmost = rec.zipCode]
    ELSE IF rec.latitude = extremes.minLatitude
            /\ smallerZipWins(rec.zipCode, extremes.southernmost)
    THEN [extremes EXCEPT !.southernmost = rec.zipCode]
    ELSE extremes

\* stateMap[state]: the entry, default-constructed when the key is new
entryOf(m, state) == IF state \in DOMAIN m THEN m[state] ELSE StateExtremes

\* the four updates of one loop iteration, in the order of the code
updateExtremes(extremes, rec) ==
    updateSouthernmost(
        updateNorthernmost(
            updateWesternmost(updateEasternmost(extremes, rec), rec), rec), rec)

\* faulty variant of foldRecord: the map is rebuilt with the current state only
foldRecord_onlyCurrent(m, rec) ==
    [k \in {rec.state} |-> updateExtremes(entryOf(m, k), rec)]

\* one iteration of the for loop
foldRecord(m, rec) ==
    [k \in DOMAIN m \cup {rec.state} |->
        IF k = rec.state THEN updateExtremes(entryOf(m, k), rec) ELSE m[k]]

RECURSIVE foldFrom(_, _, _)
foldFrom(recs, i, m) ==
    IF i > Len(recs) THEN m ELSE foldFrom(recs, i + 1, foldRecord(m, recs[i]))

calculateStateExtremes(recs) == foldFrom(recs, 1, EmptyMap)

-----------------------------------------------------------------------------
(* The fold, one record at a time *)

Regions == {NY, CA}

\* the records the fold is fed
RecordSet ==
    [zipCode : 0..MaxCode, placeName : {<<"p">>}, state : Regions,
     county : {<<"c">>}, latitude : 0..MaxCoord, longitude : 0..MaxCoord]

InitAgg ==
    /\ fs = [p \in {FileA, FileB} |-> ContentsB]
    /\ buf = ZipCodeBuffer
    /\ op = "new"
    /\ arg = ""
    /\ ret = FALSE
    /\ exit = "none"
    /\ record = ZipCodeRecord
    /\ allRecords = << >>
    /\ yielded = 0
    /\ prevAll = << >>
    /\ before = ZipCodeBuffer
    /\ records = << >>
    /\ stateMap = EmptyMap
    /\ splitLine = << >>
    /\ splitFields = << >>
    /\ argv = << >>
    /\ pc = "not-run"
    /\ exitCode = -1

\* the loop body runs on the next record of the vector
FoldStep ==
    /\ Len(records) < MaxRecords
    /\ \E rec \in RecordSet :
        /\ records' = Append(records, rec)
        /\ stateMap' = foldRecord(stateMap, rec)
    /\ UNCHANGED <<readerVars, mainVars, splitVars>>

NextAgg == FoldStep

SpecAgg == InitAgg /\ [][NextAgg]_vars

-----------------------------------------------------------------------------
(* main *)

\* the longest command line tried (arguments after the program name)
MaxArgs == 2

CommandLines == SeqsUpTo(Paths, MaxArgs)

InitMain ==
    /\ fs \in { [p \in {FileA, FileB} |-> IF p = FileA THEN f ELSE ContentsB] :
                f \in Files }
    /\ argv \in CommandLines
    /\ pc = "args"
    /\ exitCode = -1
    /\ buf = ZipCodeBuffer
    /\ op = "new"
    /\ arg = ""
    /\ ret = FALSE
    /\ exit = "none"
    /\ record = ZipCodeRecord
    /\ allRecords = << >>
    /\ yielded = 0
    /\ prevAll = << >>
    /\ before = ZipCodeBuffer
    /\ records = << >>
    /\ stateMap = EmptyMap
    /\ splitLine = << >>
    /\ splitFields = << >>

\* if (argc != 2) return 1;  argc counts the program name
MainArgs ==
    /\ pc = "args"
    /\ IF Len(argv) + 1 # 2
       THEN pc' = "exited" /\ exitCode' = 1
       ELSE pc' = "open" /\ exitCode' = exitCode
    /\ UNCHANGED <<readerVars, aggVars, argv,
                   splitVars>>

\* ZipCodeBuffer buffer; if (!buffer.open(filename)) return 2;
MainOpen ==
    /\ pc = "open"
    /\ \E r \in {open(buf, argv[1])} :
        /\ buf' = r.buf
        /\ before' = buf
        /\ op' = "open"
        /\ arg' = argv[1]
        /\ ret' = r.ret
        /\ IF ~r.ret
           THEN pc' = "exited" /\ exitCode' = 2
           ELSE pc' = "gather" /\ exitCode' = exitCode
    /\ UNCHANGED <<fs, exit, record, allRecords, yielded, prevAll, aggVars, argv,
                   splitVars>>

\* faulty variant of MainGather: an empty result is analysed like any other
MainGather_noEmptyCheck ==
    /\ pc = "gather"
    /\ \E r \in {gatherAllRecords(buf)} :
        /\ allRecords' = r.records
        /\ op' = "gatherAllRecords"
        /\ before' = buf
        /\ buf' = r.buf
        /\ pc' = "analyse"
        /\ exitCode' = exitCode
    /\ UNCHANGED <<fs, arg, ret, exit, record, yielded, prevAll, aggVars, argv,
                   splitVars>>

\* allRecords = buffer.gatherAllRecords();
\* if (allRecords.empty()) { buffer.close(); return 3; }
MainGather ==
    /\ pc = "gather"
    /\ \E r \in {gatherAllRecords(buf)} :
        /\ allRecords' = r.records
        /\ op' = "gatherAllRecords"
        /\ before' = buf
        /\ IF r.records = << >>
           THEN buf' = close(r.buf) /\ pc' = "exited" /\ exitCode' = 3
           ELSE buf' = r.buf /\ pc' = "analyse" /\ exitCode' = exitCode
    /\ UNCHANGED <<fs, arg, ret, exit, record, yielded, prevAll, aggVars, argv,
                   splitVars>>

\* stateExtremes = calculateStateExtremes(allRecords); ... buffer.close(); return 0;
MainAnalyse ==
    /\ pc = "analyse"
    /\ records' = allRecords
    /\ stateMap' = calculateStateExtremes(allRecords)
    /\ before' = buf
    /\ buf' = close(buf)
    /\ op' = "close"
    /\ pc' = "exited"
    /\ exitCode' = 0
    /\ UNCHANGED <<fs, arg, ret, exit, record, allRecords, yielded, prevAll, argv,
                   splitVars>>

NextMain ==
    \/ MainArgs
    \/ MainOpen
    \/ MainGather
    \/ MainAnalyse

SpecMain == InitMain /\ [][NextMain]_vars

-----------------------------------------------------------------------------
(* splitCSV on arbitrary lines *)

\* the longest line split
MaxLineLen == 8

\* a comma, a double quote and an ordinary character
LineChars == {",", "\"", "a"}

InitSplit ==
    /\ splitLine \in SeqsUpTo(LineChars, MaxLineLen)
    /\ splitFields = << >>
    /\ pc = "splitCSV"
    /\ fs = [p \in {FileA, FileB} |-> ContentsB]
    /\ buf = ZipCodeBuffer
    /\ op = "new"
    /\ arg = ""
    /\ ret = FALSE
    /\ exit = "none"
    /\ record = ZipCodeRecord
    /\ allRecords = << >>
    /\ yielded = 0
    /\ prevAll = << >>
    /\ before = ZipCodeBuffer
    /\ records = << >>
    /\ stateMap = EmptyMap
    /\ argv = << >>
    /\ exitCode = -1

\* vector<string> fields = splitCSV(line);
SplitCSV ==
    /\ pc = "splitCSV"
    /\ splitFields' = splitCSV(splitLine)
    /\ pc' = "returned"
    /\ UNCHANGED <<readerVars, aggVars, argv, exitCode, splitLine>>

NextSplit == SplitCSV

SpecSplit == InitSplit /\ [][NextSplit]_vars

-----------------------------------------------------------------------------
(* Vocabulary of the properties *)

MinOf(S) == CHOOSE x \in S : \A y \in S : x <= y

MaxOf(S) == CHOOSE x \in S : \A y \in S : x >= y

\* the positions of the folded records that belong to region R
IndexOf(R) == {i \in 1..Len(records) : records[i].state = R}

Longitudes(R) == {records[i].longitude : i \in IndexOf(R)}

Latitudes(R) == {records[i].latitude : i \in IndexOf(R)}

\* the positions of the records of R whose longitude is v / whose latitude is v
AtLongitude(R, v) == {i \in IndexOf(R) : records[i].longitude = v}

AtLatitude(R, v) == {i \in IndexOf(R) : records[i].latitude = v}

CodesAt(I) == {records[i].zipCode : i \in I}

\* the records in another order
Reordered(f) == [i \in 1..Len(records) |-> records[f[i]]]

\* the file the open stream reads
OpenFile == fs[buf.fileStream.path]

IsBlank(line) == line = << >> \/ trim(line) = << >>

\* the records of the non-blank lines from line i on that parseLine accepts
RECURSIVE ParsedFrom(_, _)
ParsedFrom(file, i) ==
    IF i > Len(file) THEN << >>
    ELSE IF ~IsBlank(file[i]) /\ parseLine(file[i], ZipCodeRecord).ok
    THEN <<parseLine(file[i], ZipCodeRecord).record>> \o ParsedFrom(file, i + 1)
    ELSE ParsedFrom(file, i + 1)

\* text that is a number and nothing else: an optional sign, then digits only
DigitsOnly(t) == Len(t) >= 1 /\ \A i \in 1..Len(t) : t[i] \in Digits

NumericText(t) ==
    IF Len(t) >= 1 /\ t[1] \in {"-", "+"} THEN DigitsOnly(Tail(t)) ELSE DigitsOnly(t)

FieldsMalformed(f) ==
    \/ Len(f) # 6
    \/ ~NumericText(trim(f[1]))
    \/ ~NumericText(trim(f[5]))
    \/ ~NumericText(trim(f[6]))

\* not exactly six fields, or a code, latitude or longitude that is not a number
Malformed(line) == FieldsMalformed(splitCSV(line))

-----------------------------------------------------------------------------
(* Properties of calculateStateExtremes, under SpecAgg *)

\* C1: folding the same records in any other order gives the same map from
\* region to the four codes and the four coordinate values.
C1_OrderIndependent ==
    \A f \in Permutations(1..Len(records)) :
        calculateStateExtremes(Reordered(f)) = stateMap

\* C3: when two or more records of a region share an extreme coordinate
\* value, the code stored for that extreme is the smallest code among them.
C3_TieBreakSmallest ==
    \A R \in DOMAIN stateMap :
        /\ Cardinality(AtLongitude(R, MinOf(Longitudes(R)))) >= 2
            => stateMap[R].easternmost = MinOf(CodesAt(AtLongitude(R, MinOf(Longitudes(R)))))
        /\ Cardinality(AtLongitude(R, MaxOf(Longitudes(R)))) >= 2
            => stateMap[R].westernmost = MinOf(CodesAt(AtLongitude(R, MaxOf(Longitudes(R)))))
        /\ Cardinality(AtLatitude(R, MaxOf(Latitudes(R)))) >= 2
            => stateMap[R].northernmost = MinOf(CodesAt(AtLatitude(R, MaxOf(Latitudes(R)))))
        /\ Cardinality(AtLatitude(R, MinOf(Latitudes(R)))) >= 2
            => stateMap[R].southernmost = MinOf(CodesAt(AtLatitude(R, MinOf(Latitudes(R)))))

\* C4: for every region of the result the four stored coordinate values are
\* the minimum longitude, maximum longitude, maximum latitude and minimum
\* latitude over the region's records, each stored code is the code of a
\* record of the region that attains the value, and a region with a single
\* record has all four codes equal to that record's code.
C4_ExtremesCorrect ==
    \A R \in DOMAIN stateMap :
        /\ IndexOf(R) # {}
        /\ stateMap[R].minLongitude = MinOf(Longitudes(R))
        /\ stateMap[R].maxLongitude = MaxOf(Longitudes(R))
        /\ stateMap[R].maxLatitude = MaxOf(Latitudes(R))
        /\ stateMap[R].minLatitude = MinOf(Latitudes(R))
        /\ stateMap[R].easternmost \in CodesAt(AtLongitude(R, stateMap[R].minLongitude))
        /\ stateMap[R].westernmost \in CodesAt(AtLongitude(R, stateMap[R].maxLongitude))
        /\ stateMap[R].northernmost \in CodesAt(AtLatitude(R, stateMap[R].maxLatitude))
        /\ stateMap[R].southernmost \in CodesAt(AtLatitude(R, stateMap[R].minLatitude))
        /\ \A i \in IndexOf(R) :
              IndexOf(R) = {i} =>
                  /\ stateMap[R].easternmost = records[i].zipCode
                  /\ stateMap[R].westernmost = records[i].zipCode
                  /\ stateMap[R].northernmost = records[i].zipCode
                  /\ stateMap[R].southernmost = records[i].zipCode

\* a region with two records that differ in code, latitude and longitude
C4_Witness ==
    \E R \in DOMAIN stateMap : \E i, j \in IndexOf(R) :
        /\ records[i].longitude < records[j].longitude
        /\ records[i].latitude < records[j].latitude
        /\ records[i].zipCode # records[j].zipCode
        /\ stateMap[R].easternmost = records[i].zipCode
        /\ stateMap[R].northernmost = records[j].zipCode

-----------------------------------------------------------------------------
(* Properties of the reader, under Spec *)

\* C2: gatherAllRecords on an open reader returns exactly the records of all
\* well-formed non-blank lines after the header, in file order, those after a
\* malformed line included.
C2_BulkReadSkips ==
    (op = "gatherAllRecords" /\ isOpen(buf)) => allRecords = ParsedFrom(OpenFile, 2)

\* C5: on an open reader over an unchanged file, a gatherAllRecords call
\* returns the same sequence as the gatherAllRecords call before it, whatever
\* reset or readRecord calls came in between, and it leaves the source
\* positioned just after the header.
C5_RoundTrip ==
    /\ Len(prevAll) = 2 => prevAll[1] = prevAll[2]
    /\ (op = "gatherAllRecords" /\ isOpen(buf)) =>
          /\ buf.fileStream.pos = 2
          /\ ~buf.fileStream.fail
          /\ allRecords = prevAll[Len(prevAll)]

\* a second bulk read that returned records
C5_Witness ==
    /\ op = "gatherAllRecords"
    /\ Len(prevAll) = 2
    /\ Len(allRecords) >= 1

\* C6: a line that does not split into exactly six fields, or whose code,
\* latitude or longitude field is not numeric, never contributes a record to
\* the result of gatherAllRecords: every record returned is the record of a
\* line of the file that is not malformed.
C6_MalformedRejected ==
    (op = "gatherAllRecords" /\ isOpen(buf)) =>
        \A i \in 1..Len(allRecords) :
            \E j \in 2..Len(OpenFile) :
                /\ ~Malformed(OpenFile[j])
                /\ parseLine(OpenFile[j], ZipCodeRecord).record = allRecords[i]

\* what the caller of readRecord sees
Observed == <<ret, record>>

\* what the caller sees when the source is exhausted (C7_TwoOutcomes)
ObservedAtEnd == <<FALSE, ZipCodeRecord>>

\* C7: the outcome the caller of readRecord observes when the next non-blank
\* line fails to parse differs from the one it observes at end of input.
C7_ThreeOutcomes ==
    (op = "readRecord" /\ exit = "parse-error") => Observed # ObservedAtEnd

\* C7, amended: readRecord returns true exactly when it yields a record (the
\* last line read parses); it returns false when the source is exhausted (the
\* caller's record untouched), when the last line read is a non-blank line
\* that fails to parse, and when no source is open.
C7_TwoOutcomes ==
    op = "readRecord" =>
        /\ exit \in {"record", "end-of-input", "parse-error", "not-open"}
        /\ ret <=> exit = "record"
        /\ exit = "not-open" <=> ~isOpen(buf)
        /\ exit = "end-of-input" =>
              /\ buf.fileStream.fail
              /\ Observed = ObservedAtEnd
        /\ exit = "record" =>
              /\ ~buf.fileStream.fail
              /\ ~IsBlank(OpenFile[buf.fileStream.pos - 1])
              /\ parseLine(OpenFile[buf.fileStream.pos - 1], ZipCodeRecord)
                    = [ok |-> TRUE, record |-> record]
        /\ exit = "parse-error" =>
              /\ ~buf.fileStream.fail
              /\ ~IsBlank(OpenFile[buf.fileStream.pos - 1])
              /\ ~parseLine(OpenFile[buf.fileStream.pos - 1], ZipCodeRecord).ok

\* a parse error that the caller cannot tell from the end of input
C7_Witness ==
    /\ op = "readRecord"
    /\ exit = "parse-error"
    /\ Observed = ObservedAtEnd

\* C8: open succeeds exactly when the file exists and has at least one line;
\* on success the reader is open on that file, the count is 0 and the next
\* line to read is the first after the header; on failure it is not open.
C8_OpenResult ==
    op = "open" =>
        /\ ret <=> (arg \in DOMAIN fs /\ Len(fs[arg]) >= 1)
        /\ ret =>
              /\ isOpen(buf)
              /\ getRecordCount(buf) = 0
              /\ buf.fileStream.path = arg
              /\ buf.fileStream.pos = 2
              /\ ~buf.fileStream.fail
        /\ ~ret => ~isOpen(buf)

\* open has failed on a file that exists and has no line
C8_Witness ==
    /\ op = "open"
    /\ ~ret
    /\ arg \in DOMAIN fs
    /\ ~isOpen(buf)

\* C9: getFilename is empty when no source is open, and the path of the open
\* source otherwise.
C9_FilenameTracksSource ==
    /\ ~isOpen(buf) => getFilename(buf) = ""
    /\ isOpen(buf) => getFilename(buf) = buf.fileStream.path

\* C10: getRecordCount equals the number of readRecord calls that returned a
\* record since the most recent successful open or successful reset.
C10_CountSinceOpenOrReset == getRecordCount(buf) = yielded

C10_WhileOpen ==
    /\ isOpen(buf) => getRecordCount(buf) = yielded
    /\ ~isOpen(buf) => getRecordCount(buf) = 0

C10_FailedReadKeepsCount ==
    (op' = "readRecord" /\ ~ret') => getRecordCount(buf') = getRecordCount(buf)

\* C10, amended: while a source is open getRecordCount equals the number of
\* readRecord calls that returned a record since the most recent successful
\* open or successful reset, and it is 0 while no source is open; a
\* readRecord call that returns no record leaves the count unchanged.
C10_CountWhileOpen == []C10_WhileOpen /\ [][C10_FailedReadKeepsCount]_vars

\* a read that yields nothing after a read that yielded a record
C10_Witness ==
    /\ op = "readRecord"
    /\ ~ret
    /\ isOpen(buf)
    /\ yielded >= 1
    /\ getRecordCount(buf) = yielded

\* the state close() leaves: no source, no records counted, no name
Closed(b) == ~isOpen(b) /\ getRecordCount(b) = 0 /\ getFilename(b) = ""

\* C11: after close() the reader is in the closed state (isOpen() false,
\* getRecordCount() 0, getFilename() empty), whatever state it was called in;
\* close() on a reader already in that state (closed before, or never opened)
\* changes nothing at all, and one more close() would change nothing either.
C11_CloseIdempotent ==
    op = "close" =>
        /\ Closed(buf)
        /\ Closed(before) => buf = before
        /\ close(buf) = buf

\* close() was called on a reader closed already, after records had been read
C11_Witness ==
    op = "close" /\ Closed(before) /\ buf = before /\ yielded >= 1

\* the lines after the header that are not blank
NonBlankAfterHeader(file) == {i \in 2..Len(file) : ~IsBlank(file[i])}

\* read result r is what parsing gives: the record when the line parses, a
\* failure that is not the end of input when it does not
ResultOfParsing(r, p) ==
    /\ r.ret = p.ok
    /\ r.record = p.record
    /\ r.exit = IF p.ok THEN "record" ELSE "parse-error"

\* read result r is the result for the first non-blank line after the header
\* of file, the end of input when there is none
ResultForFirstLine(r, file) ==
    IF NonBlankAfterHeader(file) = {}
    THEN ~r.ret /\ r.exit = "end-of-input"
    ELSE ResultOfParsing(r, parseLine(file[MinOf(NonBlankAfterHeader(file))],
                                      ZipCodeRecord))

\* C12: reset() fails and leaves the reader as it was when no source is open;
\* when a source is open, at any position and also after the end of input was
\* reached, it succeeds, the count is 0 and the next readRecord gives the
\* result for the first non-blank line after the header.
C12_ResetRewinds ==
    op = "reset" =>
        /\ ret = isOpen(before)
        /\ ~isOpen(before) => buf = before
        /\ isOpen(before) =>
              /\ getRecordCount(buf) = 0
              /\ ResultForFirstLine(readRecord(buf, ZipCodeRecord), OpenFile)

\* reset() succeeded after the end of input had been reached and records had
\* been counted, on a file whose first data line is a record
C12_Witness ==
    /\ op = "reset" /\ ret
    /\ before.fileStream.fail /\ before.recordCount >= 1
    /\ readRecord(buf, ZipCodeRecord).ret

-----------------------------------------------------------------------------
(* Properties of main, under SpecMain *)

\* the file main was told to read has at least its header line
Openable(path) == path \in DOMAIN fs /\ fs[path] # << >>

\* the exit code the command line and the file call for
ExpectedExit ==
    IF Len(argv) # 1 THEN 1
    ELSE IF ~Openable(argv[1]) THEN 2
    ELSE IF allRecords = << >> THEN 3
    ELSE 0

\* main has returned the code called for; a header-only file gives 3
ExitAsExpected ==
    IF pc = "exited"
    THEN /\ exitCode = ExpectedExit
         /\ (Len(argv) = 1 /\ Openable(argv[1]) /\ Len(fs[argv[1]]) = 1)
               => exitCode = 3
    ELSE exitCode = -1

\* the statements of main in program order
Rank(at) ==
    CASE at = "args" -> 0
      [] at = "open" -> 1
      [] at = "gather" -> 2
      [] at = "analyse" -> 3
      [] at = "exited" -> 4

\* until it has returned, main is at one of its four statements, each of
\* which can run: argv[1] exists when main is past the argument check
MainRuns ==
    /\ pc \in {"args", "open", "gather", "analyse", "exited"}
    /\ pc \in {"open", "gather", "analyse"} => Len(argv) = 1

\* every statement moves main forward, and a returned code stays
MainAdvances ==
    /\ Rank(pc') > Rank(pc)
    /\ exitCode # -1 => exitCode' = exitCode

\* C13: main returns 1 when the command line is not exactly one path, 2 when
\* the path cannot be opened (missing file or file without any line), 3 when
\* the bulk read gives no record (a header-only file for one), 0 otherwise;
\* every run reaches a return (it is never stuck and every step moves it
\* forward through its four statements), and returns exactly one of the codes.
C13_ExitCodes ==
    /\ [](ExitAsExpected /\ MainRuns)
    /\ [][MainAdvances]_vars

\* main returned 3 on a file that opens and has lines after the header
C13_Witness ==
    /\ pc = "exited" /\ exitCode = 3
    /\ Len(fs[argv[1]]) >= 2

-----------------------------------------------------------------------------
(* Further properties of the reader, under Spec *)

\* C14: every record readRecord yields and every record in the result of
\* gatherAllRecords has a non-negative code: a line whose code field is a
\* negative integer is rejected and yields no record.
C14_CodesNonNegative ==
    /\ (op = "readRecord" /\ ret) => record.zipCode >= 0
    /\ op = "gatherAllRecords" =>
          \A i \in 1..Len(allRecords) : allRecords[i].zipCode >= 0

\* a line that is empty or made of spaces, tabs, carriage returns, line feeds
WhitespaceOnly(line) ==
    \A i \in 1..Len(line) : line[i] \in {" ", "\t", "\r", "\n"}

\* the lines of file from position p on that are not blank
NonBlankFrom(file, p) == {i \in p..Len(file) : ~WhitespaceOnly(file[i])}

\* what the last readRecord gave its caller
LastRead == [ret |-> ret, record |-> record, exit |-> exit]

\* the last readRecord parsed line i of the open file and stopped after it
ReadLineAt(i) ==
    /\ ResultOfParsing(LastRead, parseLine(OpenFile[i], ZipCodeRecord))
    /\ buf.fileStream.pos = i + 1
    /\ getRecordCount(buf) = getRecordCount(before) + (IF ret THEN 1 ELSE 0)

\* C15: readRecord consumes the blank lines (empty or whitespace only) at its
\* position without a parse error and without counting them: k >= 0 blank
\* lines followed by a well-formed line give that line's record (count + 1),
\* followed by the end of the file give end-of-input (count unchanged).
C15_BlankLinesSkipped ==
    (op = "readRecord" /\ isOpen(before)) =>
        IF NonBlankFrom(OpenFile, before.fileStream.pos) = {}
        THEN /\ ~ret /\ exit = "end-of-input"
             /\ getRecordCount(buf) = getRecordCount(before)
        ELSE ReadLineAt(MinOf(NonBlankFrom(OpenFile, before.fileStream.pos)))

\* readRecord skipped a whitespace-only line and returned the record after it
C15_Witness ==
    /\ op = "readRecord" /\ ret /\ isOpen(before)
    /\ buf.fileStream.pos >= before.fileStream.pos + 2
    /\ OpenFile[before.fileStream.pos] # << >>
    /\ WhitespaceOnly(OpenFile[before.fileStream.pos])

-----------------------------------------------------------------------------
(* Properties of splitCSV, under SpecSplit *)

Quote == "\""

\* position i of line lies outside quotes: an even number of quotes precede it
OutsideQuotes(line, i) ==
    Cardinality({j \in 1..(i - 1) : line[j] = Quote}) % 2 = 0

\* the commas of line that separate fields
SeparatorsOf(line) ==
    {i \in 1..Len(line) : line[i] = "," /\ OutsideQuotes(line, i)}

NotQuote(c) == c # Quote

\* the commas of field f
CommasIn(f) == {i \in 1..Len(f) : f[i] = ","}

-----------------------------------------------------------------------------
(* Further properties of calculateStateExtremes, under SpecAgg *)

\* the distinct state strings of the records recs
StatesOf(recs) == {recs[i].state : i \in 1..Len(recs)}

\* the keys of the map are the states of the records folded so far, and the
\* function as a whole returns a map with the states of its input as keys
KeysAreStates ==
    /\ DOMAIN stateMap = StatesOf(records)
    /\ DOMAIN calculateStateExtremes(records) = StatesOf(records)

\* C17: the entries of the map are created on first use and never removed:
\* at every step of the fold the key set is exactly the set of distinct state
\* strings of the records consumed so far, a step only ever adds a key, and
\* the map returned has the distinct states of the input as its keys.
C17_KeysAreStatesSeen ==
    /\ []KeysAreStates
    /\ [][DOMAIN stateMap \subseteq DOMAIN stateMap']_vars

\* a second state was folded after a first: the map has both keys
C17_Witness ==
    /\ Len(records) = 2
    /\ records[1].state # records[2].state
    /\ DOMAIN stateMap = {NY, CA}

-----------------------------------------------------------------------------
(* Reopening, under Spec *)

\* the reader holds the source named path, positioned after its header
HoldsFresh(path) ==
    /\ isOpen(buf)
    /\ buf.fileStream.path = path
    /\ getFilename(buf) = path
    /\ getRecordCount(buf) = 0
    /\ ResultForFirstLine(readRecord(buf, ZipCodeRecord), fs[path])

\* the reader holds no source and a read gives no record
HoldsNothing ==
    /\ ~isOpen(buf)
    /\ buf.fileStream.path = ""
    /\ ~readRecord(buf, ZipCodeRecord).ret
    /\ readRecord(buf, ZipCodeRecord).exit = "not-open"

\* C18: open(B) on a reader that holds a source A releases A first, so that
\* the one stream is free for B: the call succeeds exactly when B can be
\* opened and has a header line; then the reader holds B alone, with count 0
\* and the next read coming from B's first line; when it fails the reader
\* holds nothing (A is not still open and readRecord returns no record).
C18_ReopenReplaces ==
    (op = "open" /\ isOpen(before)) =>
        /\ ret = Openable(arg)
        /\ IF ret THEN HoldsFresh(arg) ELSE HoldsNothing

\* open(B) succeeded on a reader that held A and had read records from it
C18_Witness ==
    /\ op = "open" /\ ret /\ arg = FileB
    /\ isOpen(before) /\ before.fileStream.path = FileA
    /\ getRecordCount(before) >= 1

====
